---- MODULE Spec2Model ----
(***************************************************************************)
(* Model of the meta-rust plugin core (src/src/lib.rs): project discovery  *)
(* (get_project_directories), manifest filtering (filter_rust_projects)    *)
(* and plan construction (execute_command), together with the callers     *)
(* that change the process current directory around a call (the tests of   *)
(* lib.rs and the exec handler of main.rs).                                *)
(*                                                                         *)
(* Strings are TLA+ strings; push/push_str/format! are \o.  Directory      *)
(* names are ordered as Rust orders String: bytewise, through Bytes.       *)
(***************************************************************************)
EXTENDS Integers, Sequences, FiniteSets, TLC

VARIABLES
    fs,            \* the disk: for each root directory, its .meta file and its manifests
    cwd,           \* the process-wide current directory (std::env::current_dir)
    pc,            \* position of each caller
    req,           \* arguments of each caller's execute_command call
    home,          \* the workspace root each caller runs its call against
    original_dir,  \* the directory a caller saved before changing directory
    dirs,          \* local `dirs` of execute_command (candidate list)
    rust_dirs,     \* local `rust_dirs` of execute_command (filtered list)
    result         \* the CommandResult returned to each caller

vars == <<fs, cwd, pc, req, home, original_dir, dirs, rust_dirs, result>>

-----------------------------------------------------------------------------
(* Bounds of the model *)

MaxArgs == 2        \* longest argument list
MaxProvided == 2    \* longest provided project list
MaxProjects == 2    \* most "projects" entries written in a .meta file

-----------------------------------------------------------------------------
(* Universes *)

Threads == {"t1", "t2"}

\* r0 is the directory the process starts in; r1 and r2 are workspaces
\* created by callers (TempDir::new()).
Roots == {"r0", "r1", "r2"}

\* What current_dir() cannot return: the current directory has been removed.
Deleted == "<deleted>"

DirNames == {".", "a", "ab"}

ProvidedNames == {".", "a"}

ArgValues == {"--release", "-q"}

CommandNames == {"cargo build", "cargo test", "cargo unknown"}

SeqsUpTo(S, n) == UNION {[1..k -> S] : k \in 0..n}

\* UTF-8 bytes of a directory name.
Bytes(s) ==
    CASE s = "."  -> <<46>>
      [] s = "a"  -> <<97>>
      [] s = "ab" -> <<97, 98>>

\* The .meta file of a root.  keys: the keys of its "projects" object in the
\* order they are written in the file (a key may be written twice).
MetaFiles ==
    [kind : {"absent", "unreadable", "malformed", "noprojects"}, keys : {<<>>}]
    \cup [kind : {"projects"}, keys : SeqsUpTo(DirNames, MaxProjects)]

\* manifests: the directories, relative to the root, that hold a Cargo.toml
\* (<<>> is the root itself).
ManifestSets == SUBSET {<<>>, <<"a">>, <<"ab">>}

Workspaces == [meta : MetaFiles, manifests : ManifestSets]

Bare == [meta |-> [kind |-> "absent", keys |-> <<>>], manifests |-> {}]

Requests ==
    [command : CommandNames,
     args : SeqsUpTo(ArgValues, MaxArgs),
     parallel : BOOLEAN,
     provided_projects : SeqsUpTo(ProvidedNames, MaxProvided)]

NoRequest ==
    [command |-> "", args |-> <<>>, parallel |-> FALSE, provided_projects |-> <<>>]

-----------------------------------------------------------------------------
(* CommandResult *)

Plan(commands, parallel) ==
    [tag |-> "Plan", msg |-> "", commands |-> commands, parallel |-> parallel]

Message(m) == [tag |-> "Message", msg |-> m, commands |-> <<>>, parallel |-> <<>>]

Error(m) == [tag |-> "Error", msg |-> m, commands |-> <<>>, parallel |-> <<>>]

ShowHelp(m) == [tag |-> "ShowHelp", msg |-> m, commands |-> <<>>, parallel |-> <<>>]

NoResult == [tag |-> "None", msg |-> "", commands |-> <<>>, parallel |-> <<>>]

\* Option::Some
Some(x) == <<x>>

-----------------------------------------------------------------------------
(* Paths and the disk *)

\* PathBuf::join
Join(path, component) == Append(path, component)

\* Path::exists for a manifest path: false when any component is missing.
PathExists(path) ==
    /\ Len(path) >= 2
    /\ path[1] \in Roots
    /\ path[Len(path)] = "Cargo.toml"
    /\ SubSeq(path, 2, Len(path) - 1) \in fs[path[1]].manifests

\* std::env::current_dir()
CurrentDirOk(c) == c \in Roots

\* cwd.join(".meta") and what is found there
MetaAt(c) == fs[c].meta

-----------------------------------------------------------------------------
(* serde_json::Map<String, Value>: a BTreeMap, kept in key order *)

RECURSIVE LexLess(_, _)
\* Ord for str: bytewise lexicographic, a proper prefix is smaller.
LexLess(x, y) ==
    IF x = <<>> THEN y # <<>>
    ELSE IF y = <<>> THEN FALSE
    ELSE IF Head(x) # Head(y) THEN Head(x) < Head(y)
    ELSE LexLess(Tail(x), Tail(y))

StrLess(s, t) == LexLess(Bytes(s), Bytes(t))

\* Mutant: the map keeps insertion order (an index map): a new key goes last.
MapInsert_PreserveOrder(m, k) ==
    IF \E i \in DOMAIN m : m[i] = k THEN m ELSE Append(m, k)

\* Mutant: the keys are collected in a sorted vector that keeps a repeated key.
MapInsert_Multi(m, k) ==
    LET less == SelectSeq(m, LAMBDA x : LexLess(Bytes(x), Bytes(k)))
        rest == SelectSeq(m, LAMBDA x : ~LexLess(Bytes(x), Bytes(k)))
    IN (less \o <<k>>) \o rest

RECURSIVE MapInsert(_, _)
\* Map::insert: a key already present keeps its place, a new key goes to its
\* place in key order.
MapInsert(m, k) ==
    IF m = <<>> THEN <<k>>
    ELSE IF Head(m) = k THEN m
    ELSE IF StrLess(k, Head(m)) THEN <<k>> \o m
    ELSE <<Head(m)>> \o MapInsert(Tail(m), k)

RECURSIVE ParseObject(_, _)
\* serde_json::from_str on the "projects" object: its keys, inserted in file order.
ParseObject(m, keys) ==
    IF keys = <<>> THEN m ELSE ParseObject(MapInsert(m, Head(keys)), Tail(keys))

\* projects.keys(): the keys in the map's iteration order.
MapKeys(fileKeys) == ParseObject(<<>>, fileKeys)

-----------------------------------------------------------------------------
(* lib.rs *)

Ok(d) == [ok |-> TRUE, dirs |-> d, err |-> ""]

Err(e) == [ok |-> FALSE, dirs |-> <<>>, err |-> e]

\* Display of the errors `?` propagates (the text comes from std and serde_json).
CurrentDirError == "current directory: No such file or directory (os error 2)"

ReadError == ".meta: read failed"

JsonError == ".meta: expected value at line 1 column 1"

RECURSIVE PushAll(_, _)
\* for x in xs { dirs.push(x.clone()) }
PushAll(v, xs) ==
    IF xs = <<>> THEN v ELSE PushAll(Append(v, Head(xs)), Tail(xs))

\* Mutant: the .meta file is read before the provided list is looked at.
get_project_directories_MetaFirst(provided_projects, c) ==
    IF ~CurrentDirOk(c) THEN Err(CurrentDirError)
    ELSE IF MetaAt(c).kind = "unreadable" THEN Err(ReadError)
    ELSE IF MetaAt(c).kind = "malformed" THEN Err(JsonError)
    ELSE IF provided_projects # <<>> THEN Ok(PushAll(<<".">>, provided_projects))
    ELSE IF MetaAt(c).kind = "projects"
         THEN Ok(PushAll(<<".">>, MapKeys(MetaAt(c).keys)))
    ELSE Ok(<<".">>)

\* Mutant: a .meta file that does not parse counts as one with no projects.
get_project_directories_Lenient(provided_projects, c) ==
    IF provided_projects # <<>>
    THEN Ok(PushAll(<<".">>, provided_projects))
    ELSE IF ~CurrentDirOk(c) THEN Err(CurrentDirError)
    ELSE IF MetaAt(c).kind = "unreadable" THEN Err(ReadError)
    ELSE IF MetaAt(c).kind = "projects"
         THEN Ok(PushAll(<<".">>, MapKeys(MetaAt(c).keys)))
    ELSE Ok(<<".">>)

\* fn get_project_directories(provided_projects), run with current directory c
get_project_directories(provided_projects, c) ==
    IF provided_projects # <<>>
    THEN Ok(PushAll(<<".">>, provided_projects))
    ELSE IF ~CurrentDirOk(c) THEN Err(CurrentDirError)
    ELSE IF MetaAt(c).kind = "absent" THEN Ok(<<".">>)
    ELSE IF MetaAt(c).kind = "unreadable" THEN Err(ReadError)
    ELSE IF MetaAt(c).kind = "malformed" THEN Err(JsonError)
    ELSE IF MetaAt(c).kind = "projects"
         THEN Ok(PushAll(<<".">>, MapKeys(MetaAt(c).keys)))
    ELSE Ok(<<".">>)

\* let cwd = current_dir().unwrap_or_default(): the empty path when it fails,
\* so that every manifest path is relative to a directory that is gone.
CwdOrDefault(c) == IF CurrentDirOk(c) THEN <<c>> ELSE <<>>

\* Mutant: the directory is not joined, every check looks at the root manifest.
cargo_path_RootOnly(base, dir) == Join(base, "Cargo.toml")

\* the closure of filter_rust_projects
cargo_path(base, dir) ==
    IF dir = "." THEN Join(base, "Cargo.toml")
    ELSE Join(Join(base, dir), "Cargo.toml")

\* fn filter_rust_projects(dirs), run with current directory c
filter_rust_projects(ds, c) ==
    SelectSeq(ds, LAMBDA dir : PathExists(cargo_path(CwdOrDefault(c), dir)))

RECURSIVE PushArgs_SpaceAfter(_, _)
\* Mutant: the space is pushed after the argument instead of before it.
PushArgs_SpaceAfter(cmd, args) ==
    IF args = <<>> THEN cmd
    ELSE PushArgs_SpaceAfter((cmd \o Head(args)) \o " ", Tail(args))

RECURSIVE PushArgs(_, _)
\* for arg in args { cmd.push(' '); cmd.push_str(arg); }
PushArgs(cmd, args) ==
    IF args = <<>> THEN cmd
    ELSE PushArgs((cmd \o " ") \o Head(args), Tail(args))

\* rust_dirs.iter().map(|dir| PlannedCommand { dir, cmd }).collect()
PlannedCommands(rds, cargo_cmd) ==
    [i \in 1..Len(rds) |-> [dir |-> rds[i], cmd |-> cargo_cmd]]

\* Mutant: the help message does not name the command.
build_plan_BareHelp(command, args, parallel, rds) ==
    IF rds = <<>>
    THEN Message("No Rust projects found (no Cargo.toml files)")
    ELSE CASE command = "cargo build" ->
                  Plan(PlannedCommands(rds, PushArgs("cargo build", args)), Some(parallel))
           [] command = "cargo test" ->
                  Plan(PlannedCommands(rds, PushArgs("cargo test", args)), Some(parallel))
           [] OTHER ->
                  ShowHelp(Some("unrecognized command"))

\* Mutant: the command is matched before the filtered list is tested.
build_plan_HelpFirst(command, args, parallel, rds) ==
    CASE command = "cargo build" /\ rds # <<>> ->
             Plan(PlannedCommands(rds, PushArgs("cargo build", args)), Some(parallel))
      [] command = "cargo test" /\ rds # <<>> ->
             Plan(PlannedCommands(rds, PushArgs("cargo test", args)), Some(parallel))
      [] command \in {"cargo build", "cargo test"} /\ rds = <<>> ->
             Message("No Rust projects found (no Cargo.toml files)")
      [] OTHER ->
             ShowHelp(Some(("unrecognized command '" \o command) \o "'"))

\* execute_command from `if rust_dirs.is_empty()` to its end
build_plan(command, args, parallel, rds) ==
    IF rds = <<>>
    THEN Message("No Rust projects found (no Cargo.toml files)")
    ELSE CASE command = "cargo build" ->
                  Plan(PlannedCommands(rds, PushArgs("cargo build", args)), Some(parallel))
           [] command = "cargo test" ->
                  Plan(PlannedCommands(rds, PushArgs("cargo test", args)), Some(parallel))
           [] OTHER ->
                  ShowHelp(Some(("unrecognized command '" \o command) \o "'"))

ResolveError(e) == Error("Failed to get project directories: " \o e)

\* Mutant: a failed resolution counts as an empty candidate list.
execute_command_ErrorAsEmpty(command, args, parallel, provided_projects, c1, c2) ==
    LET got == get_project_directories(provided_projects, c1) IN
    build_plan(command, args, parallel, filter_rust_projects(got.dirs, c2))

\* pub fn execute_command, where c1 and c2 are the current directory as
\* get_project_directories and filter_rust_projects find it.
execute_command(command, args, parallel, provided_projects, c1, c2) ==
    LET got == get_project_directories(provided_projects, c1) IN
    IF ~got.ok THEN ResolveError(got.err)
    ELSE build_plan(command, args, parallel, filter_rust_projects(got.dirs, c2))

-----------------------------------------------------------------------------
(* Callers *)

TypeOK ==
    /\ cwd \in Roots \cup {Deleted}
    /\ pc \in [Threads -> {"idle", "saved", "entered", "resolved", "done", "left"}]
    /\ \A t \in Threads : result[t].tag \in {"None", "Plan", "Message", "Error", "ShowHelp"}

Idle ==
    /\ pc = [t \in Threads |-> "idle"]
    /\ req = [t \in Threads |-> NoRequest]
    /\ home = [t \in Threads |-> "r0"]
    /\ original_dir = [t \in Threads |-> "r0"]
    /\ dirs = [t \in Threads |-> <<>>]
    /\ rust_dirs = [t \in Threads |-> <<>>]
    /\ result = [t \in Threads |-> NoResult]

\* One caller, any workspace in the directory the process runs in (or that
\* directory removed under it).
Init ==
    /\ Idle
    /\ \/ /\ cwd = "r0"
          /\ \E w \in Workspaces : fs = [r \in Roots |-> IF r = "r0" THEN w ELSE Bare]
       \/ /\ cwd = Deleted
          /\ fs = [r \in Roots |-> Bare]

\* A whole call of execute_command by a caller that runs alone.
ExecuteCommand(t) ==
    /\ pc[t] = "idle"
    /\ \E r \in Requests :
        LET got == get_project_directories(r.provided_projects, cwd)
            rds == IF got.ok THEN filter_rust_projects(got.dirs, cwd) ELSE <<>>
        IN /\ req' = [req EXCEPT ![t] = r]
           /\ dirs' = [dirs EXCEPT ![t] = got.dirs]
           /\ rust_dirs' = [rust_dirs EXCEPT ![t] = rds]
           /\ result' = [result EXCEPT ![t] =
                  execute_command(r.command, r.args, r.parallel, r.provided_projects,
                                  cwd, cwd)]
    /\ pc' = [pc EXCEPT ![t] = "done"]
    /\ home' = [home EXCEPT ![t] = cwd]
    /\ UNCHANGED <<fs, cwd, original_dir>>

\* The caller consumes the outcome; nothing of the call is kept.
Return(t) ==
    /\ pc[t] = "done"
    /\ pc' = [pc EXCEPT ![t] = "idle"]
    /\ req' = [req EXCEPT ![t] = NoRequest]
    /\ home' = [home EXCEPT ![t] = "r0"]
    /\ dirs' = [dirs EXCEPT ![t] = <<>>]
    /\ rust_dirs' = [rust_dirs EXCEPT ![t] = <<>>]
    /\ result' = [result EXCEPT ![t] = NoResult]
    /\ UNCHANGED <<fs, cwd, original_dir>>

Next == ExecuteCommand("t1") \/ Return("t1")

Spec == Init /\ [][Next]_vars

-----------------------------------------------------------------------------
(* Callers that run in one process and change its current directory around *)
(* their call: the tests of lib.rs, run by the test harness on threads of   *)
(* one process, and the exec handler of main.rs.                            *)

\* The directory a caller creates for itself (TempDir::new()).
TempOf(t) == IF t = "t1" THEN "r1" ELSE "r2"

\* The directory the process starts in: the crate root, with its Cargo.toml.
CrateRoot == [meta |-> [kind |-> "absent", keys |-> <<>>], manifests |-> {<<>>}]

\* What the tests write into their directory: a .meta or none, a root
\* Cargo.toml or none.
TestWorkspaces ==
    [meta : {[kind |-> "absent", keys |-> <<>>], [kind |-> "malformed", keys |-> <<>>],
             [kind |-> "projects", keys |-> <<>>]},
     manifests : {{}, {<<>>}}]

TestRequests ==
    [command : CommandNames, args : {<<>>}, parallel : {FALSE},
     provided_projects : {<<>>}]

InitConc ==
    /\ Idle
    /\ cwd = "r0"
    /\ \E w1, w2 \in TestWorkspaces :
           fs = [r \in Roots |-> IF r = "r0" THEN CrateRoot
                                 ELSE IF r = "r1" THEN w1 ELSE w2]

\* let original_dir = std::env::current_dir().unwrap();
SaveDir(t) ==
    /\ pc[t] = "idle"
    /\ \E r \in TestRequests : req' = [req EXCEPT ![t] = r]
    /\ original_dir' = [original_dir EXCEPT ![t] = cwd]
    /\ home' = [home EXCEPT ![t] = TempOf(t)]
    /\ pc' = [pc EXCEPT ![t] = "saved"]
    /\ UNCHANGED <<fs, cwd, dirs, rust_dirs, result>>

\* std::env::set_current_dir(temp_dir.path()).unwrap();
Chdir(t) ==
    /\ pc[t] = "saved"
    /\ cwd' = home[t]
    /\ pc' = [pc EXCEPT ![t] = "entered"]
    /\ UNCHANGED <<fs, req, home, original_dir, dirs, rust_dirs, result>>

\* A caller that calls where the process started (test_unknown_command).
CallInPlace(t) ==
    /\ pc[t] = "idle"
    /\ \E r \in TestRequests : req' = [req EXCEPT ![t] = r]
    /\ home' = [home EXCEPT ![t] = "r0"]
    /\ pc' = [pc EXCEPT ![t] = "entered"]
    /\ UNCHANGED <<fs, cwd, original_dir, dirs, rust_dirs, result>>

\* execute_command up to and including its call of get_project_directories
Resolve(t) ==
    /\ pc[t] = "entered"
    /\ LET got == get_project_directories(req[t].provided_projects, cwd) IN
        /\ dirs' = [dirs EXCEPT ![t] = got.dirs]
        /\ IF got.ok
           THEN /\ pc' = [pc EXCEPT ![t] = "resolved"]
                /\ UNCHANGED result
           ELSE /\ pc' = [pc EXCEPT ![t] = "done"]
                /\ result' = [result EXCEPT ![t] = ResolveError(got.err)]
    /\ UNCHANGED <<fs, cwd, req, home, original_dir, rust_dirs>>

\* execute_command from its call of filter_rust_projects to its end
FilterAndPlan(t) ==
    /\ pc[t] = "resolved"
    /\ LET rds == filter_rust_projects(dirs[t], cwd) IN
        /\ rust_dirs' = [rust_dirs EXCEPT ![t] = rds]
        /\ result' = [result EXCEPT ![t] =
               build_plan(req[t].command, req[t].args, req[t].parallel, rds)]
    /\ pc' = [pc EXCEPT ![t] = "done"]
    /\ UNCHANGED <<fs, cwd, req, home, original_dir, dirs>>

\* std::env::set_current_dir(original_dir).unwrap();
Restore(t) ==
    /\ pc[t] = "done"
    /\ home[t] = TempOf(t)
    /\ cwd' = original_dir[t]
    /\ pc' = [pc EXCEPT ![t] = "left"]
    /\ UNCHANGED <<fs, req, home, original_dir, dirs, rust_dirs, result>>

NextConc ==
    \E t \in Threads :
        \/ SaveDir(t)
        \/ Chdir(t)
        \/ CallInPlace(t)
        \/ Resolve(t)
        \/ FilterAndPlan(t)
        \/ Restore(t)

SpecConc == InitConc /\ [][NextConc]_vars

\* The outcome of a caller's call had it run alone against its own root.
AloneOutcome(t) ==
    execute_command(req[t].command, req[t].args, req[t].parallel,
                    req[t].provided_projects, home[t], home[t])

\* C8: under every interleaving, a finished call's outcome is the outcome it
\* would produce running alone against its own workspace root.
C8_ConcurrentCallsIsolated ==
    \A t \in Threads : pc[t] \in {"done", "left"} => result[t] = AloneOutcome(t)

-----------------------------------------------------------------------------
(* What the properties below speak of, stated from the disk and the call's  *)
(* arguments rather than from the functions above.                          *)

Recognized == {"cargo build", "cargo test"}

Range(q) == {q[i] : i \in DOMAIN q}

\* A Cargo.toml lies directly in directory d of root r ("." is r itself).
HasManifest(r, d) ==
    /\ r \in Roots
    /\ (IF d = "." THEN <<>> ELSE <<d>>) \in fs[r].manifests

\* The call reads the .meta file of its root.
ReadsMeta(t) == req[t].provided_projects = <<>> /\ home[t] \in Roots

\* Directory resolution fails: the directory is gone, or .meta is there and
\* cannot be read or parsed.
ResolutionFails(t) ==
    /\ req[t].provided_projects = <<>>
    /\ \/ home[t] \notin Roots
       \/ fs[home[t]].meta.kind \in {"unreadable", "malformed"}

\* The directories the call has to consider.
Candidates(t) ==
    {"."} \cup
    (IF req[t].provided_projects # <<>> THEN Range(req[t].provided_projects)
     ELSE IF home[t] \in Roots /\ fs[home[t]].meta.kind = "projects"
          THEN Range(fs[home[t]].meta.keys)
     ELSE {})

NoRustProject(t) == \A d \in Candidates(t) : ~HasManifest(home[t], d)

\* Directory names in lexicographic order.
LexOrder == <<".", "a", "ab">>

Rank(d) == CHOOSE i \in DOMAIN LexOrder : LexOrder[i] = d

Sorted(q) == \A i, j \in DOMAIN q : i < j => Rank(q[i]) <= Rank(q[j])

NoRepeat(q) == \A i, j \in DOMAIN q : i # j => q[i] # q[j]

PlanDirs(t) == [i \in DOMAIN result[t].commands |-> result[t].commands[i].dir]

RECURSIVE ArgSuffix(_)
\* Every argument preceded by one space.
ArgSuffix(args) ==
    IF args = <<>> THEN ""
    ELSE ArgSuffix(SubSeq(args, 1, Len(args) - 1)) \o (" " \o args[Len(args)])

-----------------------------------------------------------------------------
(* Properties of a call that runs alone (Spec) *)

\* C1: for a recognized command and a non-empty filtered list the outcome is
\* a Plan with one entry per filtered directory, in the filtered list's order,
\* each command string being the command followed by every argument preceded
\* by one space (the bare command when there are no arguments), and with the
\* parallel flag present and equal to the input.
C1_PlanPerFilteredDir ==
    \A t \in Threads :
        (pc[t] = "done" /\ req[t].command \in Recognized /\ rust_dirs[t] # <<>>) =>
            /\ result[t].tag = "Plan"
            /\ Len(result[t].commands) = Len(rust_dirs[t])
            /\ \A i \in DOMAIN rust_dirs[t] :
                   /\ result[t].commands[i].dir = rust_dirs[t][i]
                   /\ result[t].commands[i].cmd = req[t].command \o ArgSuffix(req[t].args)
                   /\ req[t].args = <<>> => result[t].commands[i].cmd = req[t].command
            /\ result[t].parallel = <<req[t].parallel>>

C1_Witness ==
    \E t \in Threads :
        /\ pc[t] = "done"
        /\ result[t].tag = "Plan"
        /\ Len(result[t].commands) >= 2
        /\ req[t].args = <<"-q", "--release">>
        /\ req[t].parallel

\* C2 as claimed: an unrecognized command always ends in ShowHelp carrying
\* "unrecognized command '<command>'", whatever the workspace.
C2_UnknownAlwaysShowHelp ==
    \A t \in Threads :
        (pc[t] = "done" /\ req[t].command \notin Recognized) =>
            /\ result[t].tag = "ShowHelp"
            /\ result[t].msg = <<("unrecognized command '" \o req[t].command) \o "'">>

\* C2 amended: an unrecognized command never ends in a Plan; it ends in
\* ShowHelp carrying "unrecognized command '<command>'" exactly when directory
\* resolution succeeds and some candidate directory holds a Cargo.toml, in
\* Error when resolution fails and in Message when no candidate holds one.
C2_UnknownShowHelpWhenProjects ==
    \A t \in Threads :
        (pc[t] = "done" /\ req[t].command \notin Recognized) =>
            /\ result[t].tag # "Plan"
            /\ (~ResolutionFails(t) /\ ~NoRustProject(t)) =>
                   /\ result[t].tag = "ShowHelp"
                   /\ result[t].msg = <<("unrecognized command '" \o req[t].command) \o "'">>
            /\ ResolutionFails(t) => result[t].tag = "Error"
            /\ (~ResolutionFails(t) /\ NoRustProject(t)) => result[t].tag = "Message"

C2_Witness ==
    \E t \in Threads :
        /\ pc[t] = "done"
        /\ req[t].command = "cargo unknown"
        /\ result[t].tag = "ShowHelp"
        /\ req[t].args # <<>>

\* C3: when resolution succeeds and no candidate directory holds a Cargo.toml
\* the outcome is the Message "No Rust projects found (no Cargo.toml files)",
\* for every command, argument list and parallel flag.
C3_NoProjectsMessage ==
    \A t \in Threads :
        (pc[t] = "done" /\ ~ResolutionFails(t) /\ NoRustProject(t)) =>
            /\ result[t].tag = "Message"
            /\ result[t].msg = "No Rust projects found (no Cargo.toml files)"
            /\ result[t].commands = <<>>

C3_Witness ==
    \E t \in Threads :
        /\ pc[t] = "done"
        /\ result[t].tag = "Message"
        /\ req[t].command = "cargo unknown"
        /\ req[t].args # <<>>
        /\ ReadsMeta(t)
        /\ fs[home[t]].meta.kind = "projects"
        /\ fs[home[t]].meta.keys # <<>>

\* C4: with a non-empty provided list the candidate list is "." followed by
\* the provided projects as given, and resolution never fails, whatever the
\* .meta file is.
C4_ProvidedVerbatim ==
    \A t \in Threads :
        (pc[t] = "done" /\ req[t].provided_projects # <<>>) =>
            /\ result[t].tag # "Error"
            /\ Len(dirs[t]) = Len(req[t].provided_projects) + 1
            /\ dirs[t][1] = "."
            /\ \A i \in DOMAIN req[t].provided_projects :
                   dirs[t][i + 1] = req[t].provided_projects[i]

C4_Witness ==
    \E t \in Threads :
        /\ pc[t] = "done"
        /\ req[t].provided_projects = <<"a", ".">>
        /\ home[t] \in Roots
        /\ fs[home[t]].meta.kind = "malformed"

\* C5: the filtered list is the subsequence of the candidate list, in input
\* order, of exactly the directories that hold a Cargo.toml.
C5_FilterKeepsManifests ==
    \A t \in Threads :
        pc[t] = "done" =>
            LET kept == {i \in DOMAIN dirs[t] : HasManifest(home[t], dirs[t][i])} IN
            /\ Len(rust_dirs[t]) = Cardinality(kept)
            /\ \A i \in kept :
                   rust_dirs[t][Cardinality({j \in kept : j <= i})] = dirs[t][i]

C5_Witness ==
    \E t \in Threads :
        /\ pc[t] = "done"
        /\ Len(dirs[t]) = 3
        /\ rust_dirs[t] = <<"a", "a">>

\* C6: when no projects are provided and the .meta file is there but cannot
\* be read or parsed, the outcome is an Error that carries the description of
\* the failure, for every command and whatever directories hold a Cargo.toml.
C6_BadMetaIsError ==
    \A t \in Threads :
        (/\ pc[t] = "done"
         /\ ReadsMeta(t)
         /\ fs[home[t]].meta.kind \in {"unreadable", "malformed"}) =>
            /\ result[t].tag = "Error"
            /\ result[t].msg = "Failed to get project directories: " \o
                   (IF fs[home[t]].meta.kind = "unreadable" THEN ReadError ELSE JsonError)

C6_Witness ==
    \E t \in Threads :
        /\ pc[t] = "done"
        /\ ReadsMeta(t)
        /\ fs[home[t]].meta.kind = "malformed"
        /\ fs[home[t]].manifests = {<<>>, <<"a">>, <<"ab">>}
        /\ req[t].command = "cargo build"
        /\ result[t].tag = "Error"

C9_NoDuplicateCandidates ==
    \A t \in Threads :
        (pc[t] = "done" /\ ReadsMeta(t) /\ ~ResolutionFails(t)) =>
            /\ NoRepeat(dirs[t])
            /\ NoRepeat(PlanDirs(t))

\* C9 amended: in a candidate list derived from .meta no configured project
\* appears twice after the root entry, even when its key is written twice in
\* the file; the list, and a Plan built from it, holds a directory twice only
\* when a configured project is named ".", which repeats the root entry.
C9_NoDuplicateProjects ==
    \A t \in Threads :
        (pc[t] = "done" /\ ReadsMeta(t) /\ ~ResolutionFails(t)) =>
            /\ NoRepeat(Tail(dirs[t]))
            /\ "." \notin Range(fs[home[t]].meta.keys) =>
                   NoRepeat(dirs[t]) /\ NoRepeat(PlanDirs(t))
            /\ \A i, j \in DOMAIN PlanDirs(t) :
                   (i # j /\ PlanDirs(t)[i] = PlanDirs(t)[j]) => PlanDirs(t)[i] = "."

C9_Witness ==
    \E t \in Threads :
        /\ pc[t] = "done"
        /\ ReadsMeta(t)
        /\ fs[home[t]].meta.keys = <<"a", "a">>
        /\ result[t].tag = "Plan"
        /\ Len(result[t].commands) = 2

\* C10: a call ends in exactly one outcome, decided in this order: Error when
\* resolution fails, else Message when no candidate holds a Cargo.toml, else
\* ShowHelp when the command is not recognized, else a Plan, which is never
\* empty.
C10_OutcomeOrder ==
    \A t \in Threads :
        pc[t] = "done" =>
            /\ result[t].tag =
                   (IF ResolutionFails(t) THEN "Error"
                    ELSE IF NoRustProject(t) THEN "Message"
                    ELSE IF req[t].command \notin Recognized THEN "ShowHelp"
                    ELSE "Plan")
            /\ result[t].tag = "Plan" <=> result[t].commands # <<>>

C10_Witness ==
    \E t \in Threads :
        /\ pc[t] = "done"
        /\ ReadsMeta(t)
        /\ ResolutionFails(t)
        /\ req[t].command = "cargo unknown"
        /\ fs[home[t]].manifests = {}
        /\ result[t].tag = "Error"

====
